---- MODULE Spec2Model ----
(***************************************************************************)
(* Model of the remote orchestration engine of auto_test_tool:             *)
(*   core/file_transfer.py   FileTransferManager                           *)
(*   core/remote_executor.py RemoteExecutor                                *)
(*   core/test_runner.py     TestRunner                                    *)
(* The paramiko objects (SSHClient, SFTPClient, Channel), the child        *)
(* processes of subprocess.Popen and the callbacks handed to the TestRunner *)
(* are collaborators outside the repository: every call on them may return *)
(* or raise, and the model draws that outcome with \E.                     *)
(***************************************************************************)
EXTENDS Integers, Sequences, FiniteSets, TLC

\* ------------------------------------------------------------------ bounds
\* SSHClient objects one session object may create (calls of connect).
MaxConnects == 2
\* Longest file_configs list handed to batch_upload_files.
MaxFiles == 2
\* chunk_size of _upload_file_chunked, in bytes (1024 * 1024 in the code).
ChunkSize == 2
\* Longest local file, in bytes.
MaxFileLen == 5
\* Deepest remote directory handed to _ensure_remote_directory.
MaxDepth == 3
\* Child processes one TestRunner launches (calls of subprocess.Popen).
MaxRuns == 2

\* ------------------------------------------------------- values and inputs
\* Python's None for the ssh_client / sftp_client fields; objects are 1, 2, ...
None == 0

\* Paths are sequences of components; <<>> is the empty string ''.
Basename(path) == IF Len(path) = 0 THEN "" ELSE path[Len(path)]

\* os.path.join(staging_base_path, filename)
PathJoin(base, name) == Append(base, name)

StagingBase == <<"tmp", "stage">>

\* Files present on the local disk; open() of any other path raises.
LocalFiles == { <<"tmp", "a.bin">>, <<"tmp", "b.bin">> }

Bytes == { "x", "y" }

\* What the local files hold: a.bin five bytes, b.bin nothing.
LocalContent(local_path) ==
    IF local_path = <<"tmp", "a.bin">> THEN << "x", "y", "y", "x", "y" >> ELSE << >>

CfgA == [local_path |-> <<"tmp", "a.bin">>, container_path |-> <<"opt", "a.bin">>,
         permissions |-> "644"]
CfgB == [local_path |-> <<"tmp", "b.bin">>, container_path |-> <<"opt", "b.bin">>,
         permissions |-> "755"]
\* a config whose local_path is the empty string
CfgEmptyLocal == [local_path |-> <<>>, container_path |-> <<"opt", "c.bin">>,
                  permissions |-> "755"]
\* a dict without the 'permissions' key: config['permissions'] raises KeyError
CfgNoPerm == [local_path |-> <<"tmp", "a.bin">>, container_path |-> <<"opt", "a.bin">>]

FileConfigs == { CfgA, CfgB, CfgEmptyLocal, CfgNoPerm }

ConfigKeys == { "local_path", "container_path", "permissions" }

SeqsUpTo(S, n) == UNION { [1..k -> S] : k \in 0..n }

\* Outcomes of the SFTP work of one upload (directory creation, open, writes).
UploadIO == { "ok", "mkdir_raises", "open_raises", "write_raises" }

\* Outcomes of close() on a paramiko object that is in use: it returns, or it
\* raises with the object already released, or it raises with the object still
\* usable. close() on an object that is not in use does nothing and returns.
CloseOutcomes == { "ok", "raises_closed", "raises_live" }

Stages == << "upload", "copy", "chmod" >>

CaughtNever(raised) == FALSE

\* `except Exception as e:` the clause that ends the try block of every
\* operation of the three classes; it catches whatever the body raised.
Caught(raised) == raised

\* The value an operation hands to its caller after its body raised: the
\* except clause logs the error, then `return False`.
ExceptReturn(raised) == IF Caught(raised) THEN "False" ELSE "raised"

VARIABLES
    \* FileTransferManager
    ft_ssh_client,      \* self.ssh_client: None or an SSHClient object
    ft_sftp_client,     \* self.sftp_client: None or an SFTPClient object
    ft_transport,       \* SSHClient object -> "absent" | "unconnected" | "live" | "closed"
    ft_channel,         \* SFTPClient object -> "absent" | "open" | "closed"
    ft_pc,              \* position inside batch_upload_files, "idle" outside it
    ft_file_configs,    \* argument of the running batch_upload_files
    ft_i,               \* loop index of batch_upload_files (1-based)
    ft_attempts,        \* stage calls made by the running/last batch_upload_files
    ft_ret,             \* value returned by the last finished operation
    ft_last,            \* the last operation that ran
    ft_closes           \* close() calls the last disconnect made, with how each ended

ft_vars == << ft_ssh_client, ft_sftp_client, ft_transport, ft_channel, ft_pc,
              ft_file_configs, ft_i, ft_attempts, ft_ret, ft_last, ft_closes >>

VARIABLES
    \* RemoteExecutor
    re_ssh_client,      \* self.ssh_client: None or an SSHClient object
    re_transport,       \* SSHClient object -> "absent" | "unconnected" | "live" | "closed"
    is_root,            \* self.is_root
    root_password,      \* self.root_password
    re_life,            \* the last of connect / disconnect that ran, and how it ended
    re_last,            \* record of the last operation: its inputs, calls and result
    re_pc,              \* "idle", or the call execute_command is blocked in
    re_process,         \* the remote process of the running command:
                        \* "none" | "running" (it will exit) | "hung" (it never exits)
    re_timed_out        \* the timeout passed to exec_command has elapsed since then

re_vars == << re_ssh_client, re_transport, is_root, root_password, re_life, re_last,
              re_pc, re_process, re_timed_out >>

VARIABLES
    \* the remote side of one upload_file_to_staging call
    up_tree,            \* the remote directories that exist (paths)
    up_file,            \* content of the remote staging file, Absent if there is none
    up_last             \* record of the upload_file_to_staging call: inputs, calls, result

up_vars == << up_tree, up_file, up_last >>

VARIABLES
    \* TestRunner
    tr_process,         \* self.process: None or the Popen object of a run
    tr_is_running,      \* self.is_running
    tr_output_callback, \* self.output_callback is set (TRUE) or None (FALSE)
    tr_child,           \* Popen object -> the child process: its state
                        \* "absent" | "alive" | "exited" (not reaped) | "reaped"
                        \* and its exit code (NoCode while it has none)
    tr_run,             \* thread -> position inside execute_test_script, the
                        \* Popen object it created, the exit code it holds
    tr_stop,            \* the stop_test call in progress: position, calls it made
    tr_last,            \* record of the TestRunner operation that has just returned
    tr_validated        \* record of the last validate_script call

tr_vars == << tr_process, tr_is_running, tr_output_callback, tr_child, tr_run,
              tr_stop, tr_last, tr_validated >>

vars == << ft_vars, re_vars, up_vars, tr_vars >>

\* ------------------------------------------------------ FileTransferManager
FtInit ==
    /\ ft_ssh_client = None
    /\ ft_sftp_client = None
    /\ ft_transport = [o \in 1..MaxConnects |-> "absent"]
    /\ ft_channel = [o \in 1..MaxConnects |-> "absent"]
    /\ ft_pc = "idle"
    /\ ft_file_configs = << >>
    /\ ft_i = 0
    /\ ft_attempts = << >>
    /\ ft_ret = "none"
    /\ ft_last = "init"
    /\ ft_closes = << >>

Bool(b) == IF b THEN "True" ELSE "False"

\* An SFTP channel works only while it is open and its transport is live.
SftpLive(o) == ft_channel[o] = "open" /\ ft_transport[o] = "live"

\* The object a constructor call returns: the first one not yet created.
IsFresh(o) ==
    /\ ft_transport[o] = "absent"
    /\ \A p \in 1..(o - 1) : ft_transport[p] # "absent"

\* ft_file_configs, ft_i and ft_attempts describe the last operation when it
\* was batch_upload_files, and are empty after any other operation.
NoBatchRecord ==
    /\ ft_pc' = ft_pc
    /\ ft_file_configs' = << >>
    /\ ft_i' = 0
    /\ ft_attempts' = << >>

ConnectOutcomes == { "connect_raises", "open_sftp_raises", "ok" }

\* connect_to_server: the SSHClient is stored in self.ssh_client before
\* connect() is tried; self.sftp_client is assigned only if open_sftp() returns.
ConnectToServer ==
    /\ ft_pc = "idle"
    /\ \E o \in 1..MaxConnects, outcome \in ConnectOutcomes :
        /\ IsFresh(o)
        /\ ft_ssh_client' = o
        /\ ft_sftp_client' = IF outcome = "ok" THEN o ELSE ft_sftp_client
        /\ ft_transport' = [ft_transport EXCEPT ![o] =
                IF outcome = "connect_raises" THEN "unconnected" ELSE "live"]
        /\ ft_channel' = [ft_channel EXCEPT ![o] =
                IF outcome = "ok" THEN "open" ELSE @]
        /\ ft_ret' = IF outcome = "ok" THEN "True" ELSE ExceptReturn(TRUE)
    /\ ft_last' = "connect_to_server"
    /\ ft_closes' = << >>
    /\ NoBatchRecord
    /\ UNCHANGED << re_vars, up_vars, tr_vars >>

\* State of a paramiko object after close() ended with `outcome`.
AfterClose(state, live, outcome) ==
    IF state = live /\ outcome # "raises_live" THEN "closed" ELSE state

\* Whether close() on an object in `state` raises under `outcome`.
CloseRaises(state, live, outcome) == state = live /\ outcome # "ok"

\* Mutant of DisconnectRaises: the try block of disconnect has no except clause.
DisconnectRaisesUncaught(close_raised) == close_raised

\* `except Exception as e: self.logger.warning(...)`: whatever a close() raised
\* is caught and logged, so nothing leaves disconnect.
DisconnectRaises(close_raised) == FALSE

\* disconnect: both closes sit in one try block, so a raising
\* sftp_client.close() skips the assignment to None and the whole ssh part.
Disconnect ==
    /\ ft_pc = "idle"
    /\ \E sc \in CloseOutcomes, tc \in CloseOutcomes :
        LET has_sftp == ft_sftp_client # None
            sftp_raised == has_sftp /\ CloseRaises(ft_channel[ft_sftp_client], "open", sc)
            has_ssh == ft_ssh_client # None
            ssh_reached == ~sftp_raised /\ has_ssh
            ssh_raised == ssh_reached
                          /\ CloseRaises(ft_transport[ft_ssh_client], "live", tc)
            chan1 == IF has_sftp
                     THEN [ft_channel EXCEPT ![ft_sftp_client] = AfterClose(@, "open", sc)]
                     ELSE ft_channel
            trans1 == IF ssh_reached
                      THEN [ft_transport EXCEPT ![ft_ssh_client] = AfterClose(@, "live", tc)]
                      ELSE ft_transport
        IN  /\ ft_sftp_client' = IF has_sftp /\ ~sftp_raised THEN None ELSE ft_sftp_client
            /\ ft_ssh_client' = IF ssh_reached /\ ~ssh_raised THEN None ELSE ft_ssh_client
            /\ ft_transport' = trans1
            /\ ft_channel' = chan1
            /\ ft_closes' =
                    (IF has_sftp
                     THEN << [on |-> "sftp_client",
                              outcome |-> IF sftp_raised THEN sc ELSE "ok"] >>
                     ELSE << >>)
                    \o (IF ssh_reached
                        THEN << [on |-> "ssh_client",
                                 outcome |-> IF ssh_raised THEN tc ELSE "ok"] >>
                        ELSE << >>)
            /\ ft_ret' = IF DisconnectRaises(sftp_raised \/ ssh_raised)
                         THEN "raised" ELSE "None"
    /\ ft_last' = "disconnect"
    /\ NoBatchRecord
    /\ UNCHANGED << re_vars, up_vars, tr_vars >>

Min(a, b) == IF a < b THEN a ELSE b

\* Mutant of ReadChunk: a final chunk shorter than chunk_size is dropped.
ReadChunkFullOnly(content, pos, chunk_size) ==
    IF pos + chunk_size <= Len(content)
    THEN SubSeq(content, pos + 1, pos + chunk_size)
    ELSE << >>

\* Mutant of ReadChunk: every read returns a single byte.
ReadChunkOneByte(content, pos, chunk_size) ==
    SubSeq(content, pos + 1, Min(pos + 1, Len(content)))

\* chunk = local_file.read(chunk_size) at offset pos of the file: chunk_size
\* bytes, fewer at the end of the file, none after it.
ReadChunk(content, pos, chunk_size) ==
    SubSeq(content, pos + 1, Min(pos + chunk_size, Len(content)))

\* The while loop of _upload_file_chunked from offset pos on, after n writes:
\* the remote_file.write(chunk) calls it makes, in order, and whether one
\* raised. fail_at is the number of the write that raises (0: none does); a
\* write that raises has stored nothing.
RECURSIVE UploadChunks(_, _, _, _, _)
UploadChunks(content, pos, chunk_size, fail_at, n) ==
    LET chunk == ReadChunk(content, pos, chunk_size)
    IN  IF chunk = << >> THEN [writes |-> << >>, raised |-> FALSE]
        ELSE IF n + 1 = fail_at
        THEN [writes |-> << [chunk |-> chunk, ok |-> FALSE] >>, raised |-> TRUE]
        ELSE LET rest == UploadChunks(content, pos + Len(chunk), chunk_size, fail_at, n + 1)
             IN  [writes |-> << [chunk |-> chunk, ok |-> TRUE] >> \o rest.writes,
                  raised |-> rest.raised]

\* The chunks the upload of local_path writes under `io` when it gets as far
\* as the loop.
StagingWrites(local_path, io) ==
    UploadChunks(LocalContent(local_path), 0, ChunkSize,
                 IF io = "write_raises" THEN 1 ELSE 0, 0)

\* Whether upload_file_to_staging gets as far as the loop of
\* _upload_file_chunked: an SFTP client that works, the directory ensured,
\* both files opened.
UploadReachesLoop(local_path, io) ==
    /\ ft_sftp_client # None
    /\ SftpLive(ft_sftp_client)
    /\ local_path \in LocalFiles
    /\ io \notin { "mkdir_raises", "open_raises" }

\* upload_file_to_staging: False without SFTP client; any exception of the
\* SFTP work or of open(local_path) is caught and gives False.
upload_file_to_staging(local_path, io) ==
    IF ft_sftp_client = None THEN FALSE
    ELSE /\ UploadReachesLoop(local_path, io)
         /\ ~StagingWrites(local_path, io).raised

\* Mutant of ExitOk: the exit status is not looked at.
ExitOkAlways(exit_status) == TRUE

\* if exit_status == 0
ExitOk(exit_status) == exit_status = 0

\* The exit status of the composed kubectl command: $(get_pod_cmd) expands to
\* the first pod the filter matches; when it matches none the pod name is
\* empty and kubectl ends with an error status.
KubectlExit(matched, exit_status) == IF matched THEN exit_status ELSE 1

\* exec_command is reached whenever self.ssh_client is set: nothing looks at
\* what the filter matches before.
CommandIssued == ft_ssh_client # None

\* The exit status recv_exit_status() hands back, -1 when none arrived
\* (exec_command was not reached, or it raised).
ReceivedExit(raises, matched, exit_status) ==
    IF ~CommandIssued \/ ft_transport[ft_ssh_client] # "live" \/ raises THEN -1
    ELSE KubectlExit(matched, exit_status)

\* The tail shared by copy_to_container and set_file_permissions:
\* exec_command on self.ssh_client, then exit_status == 0 decides; every
\* exception gives False.
RemoteCommand(raises, matched, exit_status) ==
    IF ReceivedExit(raises, matched, exit_status) = -1 THEN FALSE
    ELSE ExitOk(ReceivedExit(raises, matched, exit_status))

copy_to_container(raises, matched, exit_status) ==
    RemoteCommand(raises, matched, exit_status)

set_file_permissions(raises, matched, exit_status) ==
    RemoteCommand(raises, matched, exit_status)

\* batch_upload_files, call and entry into the try block.
BatchUploadFiles ==
    /\ ft_pc = "idle"
    /\ \E cfgs \in SeqsUpTo(FileConfigs, MaxFiles) :
        ft_file_configs' = cfgs
    /\ ft_i' = 1
    /\ ft_attempts' = << >>
    /\ ft_ret' = "none"
    /\ ft_pc' = "loop"
    /\ ft_last' = "batch_upload_files"
    /\ ft_closes' = << >>
    /\ UNCHANGED << ft_ssh_client, ft_sftp_client, ft_transport, ft_channel >>
    /\ UNCHANGED << re_vars, up_vars, tr_vars >>

\* Mutant of LoopFinished: the loop stops one element early.
LoopFinishedEarly(i, n) == i >= n

\* for i, config in enumerate(file_configs, 1): the loop is over after the
\* last element.
LoopFinished(i, n) == i > n

\* Loop head: leave the loop (return True), or read the three keys of the next
\* config; a missing key raises KeyError, caught by the outer except.
BatchLoop ==
    /\ ft_pc = "loop"
    /\ IF LoopFinished(ft_i, Len(ft_file_configs))
       THEN /\ ft_ret' = "True"
            /\ ft_pc' = "idle"
       ELSE IF ConfigKeys \subseteq DOMAIN ft_file_configs[ft_i]
       THEN /\ ft_pc' = "upload"
            /\ ft_ret' = ft_ret
       ELSE /\ ft_ret' = ExceptReturn(TRUE)
            /\ ft_pc' = "idle"
    /\ UNCHANGED << ft_ssh_client, ft_sftp_client, ft_transport, ft_channel,
                    ft_file_configs, ft_i, ft_attempts, ft_last, ft_closes >>
    /\ UNCHANGED << re_vars, up_vars, tr_vars >>

\* Mutant of StageExit: the `return False` after a failed stage is missing.
StageExitContinue(ok, next) == next

\* Mutant of StageExit: a failed stage skips to the next file (`continue`).
StageExitNextFile(ok, next) == IF ok THEN next ELSE "loop"

\* `if not self.<stage>(...): return False`: where control goes after a stage.
StageExit(ok, next) == IF ok THEN next ELSE "idle"

\* Whether the body of a stage call raised: an upload that fails past its
\* guard, a command for which no exit status arrived.
StageRaised(stage, ok, calls) ==
    IF stage = "upload" THEN ~ok /\ ft_sftp_client # None
    ELSE calls.exit_status = -1

\* One stage call of the loop body and the `if not ...: return False` after
\* it; the for statement advances to the next config after the third stage.
\* What a stage raises is caught by its own except clause.
StageDone(stage, arg, ok, next, calls) ==
    /\ ft_attempts' = Append(ft_attempts,
            [file |-> ft_i, config |-> ft_file_configs[ft_i], stage |-> stage,
             arg |-> arg, ok |-> ok, writes |-> calls.writes,
             issued |-> calls.issued, matched |-> calls.matched,
             exit_status |-> calls.exit_status])
    /\ ft_pc' = StageExit(ok, next)
    /\ ft_ret' = IF StageExit(ok, next) # "idle" THEN ft_ret
                ELSE IF StageRaised(stage, ok, calls) THEN ExceptReturn(TRUE)
                ELSE "False"
    /\ ft_i' = IF StageExit(ok, next) = "loop" THEN ft_i + 1 ELSE ft_i
    /\ UNCHANGED << ft_ssh_client, ft_sftp_client, ft_transport, ft_channel,
                    ft_file_configs, ft_last, ft_closes >>
    /\ UNCHANGED << re_vars, up_vars, tr_vars >>

\* staging_path = os.path.join(staging_base_path, os.path.basename(local_path))
StagingPath(local_path) == PathJoin(StagingBase, Basename(local_path))

\* What a stage call did on the remote side: the chunks an upload wrote, and
\* for a command whether exec_command was reached, whether the filter matched
\* a pod, and the exit status received.
NoCalls == [writes |-> << >>, issued |-> FALSE, matched |-> FALSE, exit_status |-> -1]

BatchUpload ==
    /\ ft_pc = "upload"
    /\ \E io \in UploadIO :
        LET local_path == ft_file_configs[ft_i].local_path
        IN  StageDone("upload", StagingPath(local_path),
                      upload_file_to_staging(local_path, io), "copy",
                      [NoCalls EXCEPT !.writes =
                            IF UploadReachesLoop(local_path, io)
                            THEN StagingWrites(local_path, io).writes
                            ELSE << >>])

\* The environment of one remote command: exec_command or a read raises, the
\* filter matches a pod or none, the status the command ends with if it runs.
CommandRuns ==
    { [raises |-> TRUE, matched |-> TRUE, exit_status |-> 0] }
    \cup { [raises |-> FALSE, matched |-> TRUE, exit_status |-> e] : e \in { 0, 1 } }
    \cup { [raises |-> FALSE, matched |-> FALSE, exit_status |-> 1] }

CommandCalls(run) ==
    [NoCalls EXCEPT !.issued = CommandIssued,
                    !.matched = run.matched,
                    !.exit_status = ReceivedExit(run.raises, run.matched, run.exit_status)]

BatchCopy ==
    /\ ft_pc = "copy"
    /\ \E run \in CommandRuns :
        StageDone("copy", StagingPath(ft_file_configs[ft_i].local_path),
                  copy_to_container(run.raises, run.matched, run.exit_status), "chmod",
                  CommandCalls(run))

BatchPerm ==
    /\ ft_pc = "chmod"
    /\ \E run \in CommandRuns :
        StageDone("chmod", ft_file_configs[ft_i].container_path,
                  set_file_permissions(run.raises, run.matched, run.exit_status), "loop",
                  CommandCalls(run))

FtNext ==
    \/ ConnectToServer
    \/ Disconnect
    \/ BatchUploadFiles
    \/ BatchLoop
    \/ BatchUpload
    \/ BatchCopy
    \/ BatchPerm

\* --------------------------------------------- upload_file_to_staging alone
\* os.path.dirname; the top of a path ('/' of an absolute path, '' of a
\* relative one) is its own dirname.
Dirname(path) == IF Len(path) = 0 THEN path ELSE SubSeq(path, 1, Len(path) - 1)

RemoteDir(k) == [i \in 1..k |-> "d"]

RemoteDirs == { RemoteDir(k) : k \in 0..MaxDepth }

\* The remote trees: the directories down to some depth exist; in the empty
\* tree not even the top can be stat'ed.
RemoteTrees == { { RemoteDir(j) : j \in 0..k } : k \in (-1)..MaxDepth }

\* The directory, if any, whose creation the server refuses.
Refusals == { {} } \cup { { d } : d \in RemoteDirs \ { << >> } }

Absent == << "absent" >>

Contents == SeqsUpTo(Bytes, MaxFileLen)

FileName == "f.bin"

MaxWrites == (MaxFileLen + ChunkSize - 1) \div ChunkSize

\* The call of upload_file_to_staging that raises for a reason of its own, if
\* any: the first stat (another error than FileNotFoundError), open() of the
\* local file, sftp_client.open(), the k-th write, the close of the remote file.
UploadFaults ==
    { [call |-> c, k |-> 0] : c \in { "none", "stat", "open_local", "open", "close" } }
    \cup { [call |-> "write", k |-> k] : k \in 1..MaxWrites }

RemoteCall(call, arg, res) == [call |-> call, arg |-> arg, res |-> res]

\* sftp_client.mkdir(dir) creates one level: the parent must exist.
MkdirOk(dir, tree, refused) ==
    /\ Len(dir) > 0
    /\ dir \notin tree
    /\ Dirname(dir) \in tree
    /\ dir \notin refused

\* Mutant of HasParent: a failed mkdir is never followed by a look at the parent.
HasParentNever(parent_dir, remote_dir) == FALSE

\* if parent_dir != remote_dir
HasParent(parent_dir, remote_dir) == parent_dir # remote_dir

\* _ensure_remote_directory(remote_dir) on `tree`: the tree afterwards, the
\* SFTP calls made in order, and whether an exception left the method.
RECURSIVE EnsureRemoteDirectory(_, _, _, _)
EnsureRemoteDirectory(remote_dir, tree, refused, stat_raises) ==
    IF stat_raises
    THEN [tree |-> tree, raised |-> TRUE,
          calls |-> << RemoteCall("stat", remote_dir, "raised") >>]
    ELSE IF remote_dir \in tree
    THEN [tree |-> tree, raised |-> FALSE,
          calls |-> << RemoteCall("stat", remote_dir, "ok") >>]
    ELSE IF MkdirOk(remote_dir, tree, refused)
    THEN [tree |-> tree \cup { remote_dir }, raised |-> FALSE,
          calls |-> << RemoteCall("stat", remote_dir, "not_found"),
                       RemoteCall("mkdir", remote_dir, "ok") >>]
    ELSE LET first == << RemoteCall("stat", remote_dir, "not_found"),
                         RemoteCall("mkdir", remote_dir, "raised") >>
             parent_dir == Dirname(remote_dir)
         IN  IF ~HasParent(parent_dir, remote_dir)
             THEN [tree |-> tree, raised |-> TRUE, calls |-> first]
             ELSE LET up == EnsureRemoteDirectory(parent_dir, tree, refused, FALSE)
                      retry_ok == MkdirOk(remote_dir, up.tree, refused)
                  IN  IF up.raised
                      THEN [tree |-> up.tree, raised |-> TRUE, calls |-> first \o up.calls]
                      ELSE [tree |-> IF retry_ok THEN up.tree \cup { remote_dir }
                                     ELSE up.tree,
                            raised |-> ~retry_ok,
                            calls |-> first \o up.calls \o
                                << RemoteCall("mkdir", remote_dir,
                                              IF retry_ok THEN "ok" ELSE "raised") >>]

\* What the writes that returned have stored, in order.
RECURSIVE Written(_)
Written(writes) ==
    IF writes = << >> THEN << >>
    ELSE (IF Head(writes).ok THEN Head(writes).chunk ELSE << >>) \o Written(Tail(writes))

\* Mutant of UploadReturn: True is returned also from the except clause.
UploadReturnAlwaysTrue(raised) == "True"

\* `return True` at the end of the try block, `return False` in the except clause.
UploadReturn(raised) == IF raised THEN ExceptReturn(TRUE) ELSE "True"

RemoteOpenReachedAlways(local_opened) == TRUE

\* _upload_file_chunked: `with self.sftp_client.open(remote_path, 'wb')` stands
\* inside `with open(local_path, 'rb')`, so it is reached only once the local
\* file is open.
RemoteOpenReached(local_opened) == local_opened

\* upload_file_to_staging(local_path, remote_staging_path) past the guard, for
\* a local file holding `content`: the directory is ensured, the start of the
\* upload is logged (logger.step_start), the local file is opened, then the
\* remote one ('wb': created or emptied), the chunks are written, and leaving
\* the with block closes the remote file.
UploadEffect(content, remote_staging_path, tree, file, refused, fault) ==
    LET remote_dir == Dirname(remote_staging_path)
        ens == EnsureRemoteDirectory(remote_dir, tree, refused, fault.call = "stat")
        local_opened == ~ens.raised /\ fault.call # "open_local"
        remote_opened == RemoteOpenReached(local_opened) /\ fault.call # "open"
        up == UploadChunks(content, 0, ChunkSize,
                           IF fault.call = "write" THEN fault.k ELSE 0, 0)
        close_raised == remote_opened /\ ~up.raised /\ fault.call = "close"
        raised == ~remote_opened \/ up.raised \/ close_raised
    IN  [ret |-> UploadReturn(raised),
         tree |-> ens.tree,
         file |-> IF remote_opened THEN Written(up.writes) ELSE file,
         ensure_calls |-> ens.calls,
         ensure_raised |-> ens.raised,
         calls |->
            ens.calls
            \o (IF ens.raised THEN << >>
                ELSE << RemoteCall("step_start", remote_staging_path, "ok"),
                        RemoteCall("open_local", << >>,
                                   IF local_opened THEN "ok" ELSE "raised") >>)
            \o (IF ~local_opened THEN << >>
                ELSE << RemoteCall("open", remote_staging_path,
                                   IF remote_opened THEN "ok" ELSE "raised") >>)
            \o (IF ~remote_opened THEN << >>
                ELSE [k \in 1..Len(up.writes) |->
                        RemoteCall("write", up.writes[k].chunk,
                                   IF up.writes[k].ok THEN "ok" ELSE "raised")]
                     \o << RemoteCall("close", remote_staging_path,
                                      IF close_raised THEN "raised" ELSE "ok") >>)]

NoUpload == [op |-> "init", ret |-> "none", content |-> << >>, remote_path |-> << >>,
             tree_before |-> {}, file_before |-> Absent, guarded |-> FALSE,
             calls |-> << >>, ensure_calls |-> << >>, ensure_raised |-> FALSE]

\* The remote side as it is when nothing is known about it: nothing staged.
UpInit ==
    /\ up_tree = { << >> }
    /\ up_file = Absent
    /\ up_last = NoUpload

\* One call of upload_file_to_staging, the whole call: `if not
\* self.sftp_client` returns False before anything is done.
UploadFileToStaging ==
    /\ ft_pc = "idle"
    /\ up_last.op = "init"
    /\ \E content \in Contents, remote_dir \in RemoteDirs, refused \in Refusals,
          fault \in UploadFaults :
        LET remote_staging_path == Append(remote_dir, FileName)
            guarded == ft_sftp_client = None
            r == UploadEffect(content, remote_staging_path, up_tree, up_file,
                              refused, fault)
            call == [NoUpload EXCEPT !.op = "upload_file_to_staging",
                                     !.content = content,
                                     !.remote_path = remote_staging_path,
                                     !.tree_before = up_tree,
                                     !.file_before = up_file,
                                     !.guarded = guarded]
        IN  IF guarded
            THEN /\ up_last' = [call EXCEPT !.ret = "False"]
                 /\ UNCHANGED << up_tree, up_file >>
            ELSE /\ up_last' = [call EXCEPT !.ret = r.ret,
                                            !.calls = r.calls,
                                            !.ensure_calls = r.ensure_calls,
                                            !.ensure_raised = r.ensure_raised]
                 /\ up_tree' = r.tree
                 /\ up_file' = r.file
    /\ UNCHANGED << ft_vars, re_vars, tr_vars >>

\* ----------------------------------------------------------- RemoteExecutor
\* Texts are sequences of characters.
Marker == << "r", "o", "o", "t" >>

Whoami == << "w", "h", "o", "a", "m", "i" >>

\* f"{text}\n"
Line(text) == Append(text, "\n")

\* root_password before any successful switch_to_root (Python's None).
NoPassword == << "None" >>

SwitchCommands == { << "s", "u" >>, << "s", "u", " ", "r", "o", "o", "t" >> }

Passwords == { << >>, << "p", "w" >> }

\* What the remote shell has written back when the output is read: nothing
\* yet, the elevated identity, a cut-off reply, a refusal.
Replies == { << >>, << "r", "o", "o", "t" >>, << "r", "o", "o" >>,
             << "d", "e", "n", "i", "e", "d" >> }

\* The call of switch_to_root that raises, if any: invoke_shell, the recv that
\* drains the initial output, one of the sends, or recv/decode in the read loop.
SwitchFaults == { "none", "invoke_shell", "drain", "send_command", "send_password",
                  "send_probe", "recv" }

Commands == { << "ls" >>, << "false" >> }

\* Texts a remote command can print on stderr, and str(e) of an exception.
Texts == { "", "timed out" }

\* (stdout, stderr) of a command that has exited.
Outputs == { << "", "" >>, << "out", "" >>, << "", "timed out" >> }

\* How a paramiko call of execute_command ends: it returns, it raises
\* socket.timeout / a timeout error, or it raises another exception.
ExecFaults == { "none", "timeout", "error" }

\* How exec_command ends and what it starts: it raises with str(e) = text, or
\* it returns with a remote process started that exits later or never does.
ExecCalls ==
    { [fault |-> f, text |-> t, hangs |-> FALSE] : f \in ExecFaults \ { "none" }, t \in Texts }
    \cup { [fault |-> "none", text |-> "", hangs |-> h] : h \in BOOLEAN }

\* How the reads of stdout and stderr end after the exit status arrived.
ExecReads ==
    { [fault |-> f, text |-> t, output |-> << "", "" >>] :
            f \in ExecFaults \ { "none" }, t \in Texts }
    \cup { [fault |-> "none", text |-> "", output |-> o] : o \in Outputs }

\* Commands handed to restart_service and to execute_in_container.
ServiceCommands == { << "restart" >> }

ContainerCommands == { << "ls" >> }

NoCall == [op |-> "init", ret |-> "none", err |-> "", pre_is_root |-> FALSE,
           pre_password |-> NoPassword, pre_life |-> "new",
           chan_opened |-> FALSE, chan_closed |-> FALSE, sent |-> << >>,
           judged |-> FALSE, output |-> << >>, raised |-> "",
           exec_called |-> FALSE, get_pty |-> FALSE, command |-> << >>,
           close_called |-> FALSE, kind |-> "", out |-> ""]

ReInit ==
    /\ re_ssh_client = None
    /\ re_transport = [o \in 1..MaxConnects |-> "absent"]
    /\ is_root = FALSE
    /\ root_password = NoPassword
    /\ re_life = "new"
    /\ re_last = NoCall
    /\ re_pc = "idle"
    /\ re_process = "none"
    /\ re_timed_out = FALSE

\* What every operation records before it runs.
Call(op) == [NoCall EXCEPT !.op = op, !.pre_is_root = is_root,
                           !.pre_password = root_password, !.pre_life = re_life]

ReIsFresh(o) ==
    /\ re_transport[o] = "absent"
    /\ \A p \in 1..(o - 1) : re_transport[p] # "absent"

\* connect: self.ssh_client is assigned the new SSHClient before connect() is
\* tried; is_root and root_password are not touched.
Connect ==
    /\ re_pc = "idle"
    /\ \E o \in 1..MaxConnects, ok \in BOOLEAN :
        /\ ReIsFresh(o)
        /\ re_ssh_client' = o
        /\ re_transport' = [re_transport EXCEPT ![o] = IF ok THEN "live" ELSE "unconnected"]
        /\ re_life' = IF ok THEN "connected" ELSE "connect_failed"
        /\ re_last' = [Call("connect") EXCEPT
                            !.ret = IF ok THEN "True" ELSE ExceptReturn(TRUE)]
    /\ UNCHANGED << is_root, root_password, re_pc, re_process, re_timed_out >>
    /\ UNCHANGED << ft_vars, up_vars, tr_vars >>

\* disconnect: self.ssh_client becomes None only if close() returns.
ReDisconnect ==
    /\ re_pc = "idle"
    /\ \E tc \in CloseOutcomes :
        LET has_ssh == re_ssh_client # None
            raised == has_ssh /\ CloseRaises(re_transport[re_ssh_client], "live", tc)
        IN  /\ re_ssh_client' = IF raised THEN re_ssh_client ELSE None
            /\ re_transport' = IF has_ssh
                               THEN [re_transport EXCEPT ![re_ssh_client] =
                                        AfterClose(@, "live", tc)]
                               ELSE re_transport
            /\ re_last' = [Call("disconnect") EXCEPT
                    !.ret = IF DisconnectRaises(raised) THEN "raised" ELSE "None",
                    !.close_called = has_ssh]
    /\ re_life' = "disconnected"
    /\ UNCHANGED << is_root, root_password, re_pc, re_process, re_timed_out >>
    /\ UNCHANGED << ft_vars, up_vars, tr_vars >>

\* Python's `sub in s` for strings: a search for sub at every offset of s.
RECURSIVE ContainsFrom(_, _, _)
ContainsFrom(s, sub, i) ==
    IF i + Len(sub) - 1 > Len(s) THEN FALSE
    ELSE IF SubSeq(s, i, i + Len(sub) - 1) = sub THEN TRUE
    ELSE ContainsFrom(s, sub, i + 1)

StrContains(s, sub) == ContainsFrom(s, sub, 1)

\* Mutant of JudgedElevated: any output at all counts as success.
JudgedElevatedAnyOutput(output) == output # << >>

\* if "root" in output
JudgedElevated(output) == StrContains(output, Marker)

\* The writes switch_to_root makes on the channel, in order, each with the
\* name of the fault that makes it raise; the password only `if root_password`.
PlannedWrites(root_switch_command, password) ==
    << [text |-> Line(root_switch_command), fault |-> "send_command"] >>
    \o (IF password # << >>
        THEN << [text |-> Line(password), fault |-> "send_password"] >>
        ELSE << >>)
    \o << [text |-> Line(Whoami), fault |-> "send_probe"] >>

\* Index of the write that raises under `fault`, 0 if none does.
FailingWrite(writes, fault) ==
    IF \E k \in 1..Len(writes) : writes[k].fault = fault
    THEN CHOOSE k \in 1..Len(writes) : writes[k].fault = fault
    ELSE 0

\* switch_to_root(root_switch_command, root_password), the whole call.
\* `fault`: the call that raises, if any; `buffer`: what the channel holds
\* when the output is read; `cc`: how channel.close() ends.
SwitchEffect(root_switch_command, password, fault, buffer, cc) ==
    LET opened == /\ re_ssh_client # None
                  /\ re_transport[re_ssh_client] = "live"
                  /\ fault # "invoke_shell"
        writes == PlannedWrites(root_switch_command, password)
        f == FailingWrite(writes, fault)
        sent == IF ~opened \/ fault = "drain" THEN << >>
                ELSE IF f = 0 THEN [k \in 1..Len(writes) |-> writes[k].text]
                ELSE [k \in 1..(f - 1) |-> writes[k].text]
        reached_read == opened /\ fault # "drain" /\ f = 0
        read_raised == buffer # << >> /\ fault = "recv"
        judged == reached_read /\ ~read_raised
        output == IF judged THEN buffer ELSE << >>
        elevated == judged /\ JudgedElevated(output)
        close_raised == judged /\ cc # "ok"
    IN  /\ is_root' = IF elevated THEN TRUE ELSE is_root
        /\ root_password' = IF elevated THEN password ELSE root_password
        /\ re_last' = [Call("switch_to_root") EXCEPT
                !.ret = IF ~judged \/ close_raised THEN ExceptReturn(TRUE)
                        ELSE Bool(elevated),
                !.chan_opened = opened,
                !.chan_closed = judged /\ cc # "raises_live",
                !.sent = sent,
                !.judged = judged,
                !.output = output,
                !.raised = IF re_ssh_client = None
                              \/ re_transport[re_ssh_client] # "live" THEN "invoke_shell"
                           ELSE IF fault \in { "invoke_shell", "drain" } THEN fault
                           ELSE IF f # 0 THEN fault
                           ELSE IF read_raised THEN "recv"
                           ELSE IF close_raised THEN "close"
                           ELSE ""]

\* The output is judged only on a live client when no call raised; only then
\* do the remote's text and the close matter. With `echo` the terminal has
\* echoed the command line in front of the reply. A recv or decode that
\* raises has found some text waiting.
SwitchToRoot ==
    /\ re_pc = "idle"
    /\ \E root_switch_command \in SwitchCommands, password \in Passwords,
          fault \in SwitchFaults :
        IF /\ re_ssh_client # None
           /\ re_transport[re_ssh_client] = "live"
           /\ fault = "none"
        THEN \E echo \in BOOLEAN, reply \in Replies, cc \in CloseOutcomes :
                SwitchEffect(root_switch_command, password, fault,
                             (IF echo THEN root_switch_command ELSE << >>) \o reply, cc)
        ELSE SwitchEffect(root_switch_command, password, fault, Marker, "ok")
    /\ UNCHANGED << re_ssh_client, re_transport, re_life, re_pc, re_process,
                    re_timed_out >>
    /\ UNCHANGED << ft_vars, up_vars, tr_vars >>

\* Mutant of GetPty: the pseudo-terminal is never requested.
GetPtyNever(root) == FALSE

\* get_pty=True is passed exactly in the `if self.is_root` branch.
GetPty(root) == root

NotConnected == "SSH client not connected"

\* The tuple execute_command returns. `kind`: "not_connected" (the guard),
\* "timeout" / "error" (the except clause, with str(e) = text), "exit"
\* (exit_status was received and both streams were read).
CommandResult(kind, exit_status, stdout_content, stderr_content, text) ==
    IF kind = "not_connected" THEN << "False", "", NotConnected >>
    ELSE IF kind \in { "timeout", "error" } THEN << ExceptReturn(TRUE), "", text >>
    ELSE IF exit_status = 0 THEN << "True", stdout_content, stderr_content >>
    ELSE << "False", stdout_content, stderr_content >>

\* re_last with the result of the execute_command call filled in.
Returned(call, kind, result) ==
    [call EXCEPT !.kind = kind, !.ret = result[1], !.out = result[2], !.err = result[3]]

\* execute_command(command, timeout) reached as `op`, up to the call of
\* recv_exit_status(): the guard, then exec_command(command, timeout=timeout
\* [, get_pty=True]). `fault`: how exec_command ends (str(e) = text when it
\* raises); `hangs`: the remote process started never exits.
ExecuteCommandAs(op, command, fault, text, hangs) ==
    LET guarded == re_ssh_client = None
        live == ~guarded /\ re_transport[re_ssh_client] = "live"
        call == [Call(op) EXCEPT
                    !.command = command,
                    !.exec_called = ~guarded,
                    !.get_pty = ~guarded /\ GetPty(is_root)]
        kind == IF guarded THEN "not_connected"
                ELSE IF ~live THEN "error"
                ELSE fault
    IN  /\ re_pc = "idle"
        /\ IF kind = "none"
           THEN /\ re_last' = call
                /\ re_pc' = "recv_exit_status"
                /\ re_process' = IF hangs THEN "hung" ELSE "running"
           ELSE /\ re_last' = Returned(call, kind, CommandResult(kind, 0, "", "", text))
                /\ re_pc' = "idle"
                /\ re_process' = "none"
        /\ re_timed_out' = FALSE
        /\ UNCHANGED << re_ssh_client, re_transport, is_root, root_password, re_life >>
        /\ UNCHANGED << ft_vars, up_vars, tr_vars >>

\* Time passes while execute_command is blocked in recv_exit_status(): the
\* timeout given to exec_command runs out. recv_exit_status() takes no
\* timeout (the channel timeout bounds reads only), so the call stays blocked.
TimeoutElapses ==
    /\ re_pc = "recv_exit_status"
    /\ ~re_timed_out
    /\ re_timed_out' = TRUE
    /\ UNCHANGED << re_ssh_client, re_transport, is_root, root_password, re_life,
                    re_last, re_pc, re_process >>
    /\ UNCHANGED << ft_vars, up_vars, tr_vars >>

\* The remote process exits: recv_exit_status() returns exit_status, the two
\* streams are read and decoded (`fault`: how the reads end), and
\* execute_command returns.
ExecuteCommandReturn ==
    /\ re_pc = "recv_exit_status"
    /\ re_process = "running"
    /\ \E exit_status \in { 0, 1 }, rd \in ExecReads :
        LET kind == IF rd.fault = "none" THEN "exit" ELSE rd.fault
        IN  re_last' = Returned(re_last, kind,
                                CommandResult(kind, exit_status, rd.output[1],
                                              rd.output[2], rd.text))
    /\ re_pc' = "idle"
    /\ re_process' = "none"
    /\ re_timed_out' = FALSE
    /\ UNCHANGED << re_ssh_client, re_transport, is_root, root_password, re_life >>
    /\ UNCHANGED << ft_vars, up_vars, tr_vars >>

ExecuteCommand ==
    \E command \in Commands, c \in ExecCalls :
        ExecuteCommandAs("execute_command", command, c.fault, c.text, c.hangs)

\* exec_cmd = f"kubectl -n {namespace} exec $({get_pod_cmd}) -- {command}"
ExecuteInContainer ==
    \E command \in ContainerCommands, c \in ExecCalls :
        ExecuteCommandAs("execute_in_container",
                         << "kubectl", "exec", "$(get_pod_cmd)", "--" >> \o command,
                         c.fault, c.text, c.hangs)

RestartService ==
    \E command \in ServiceCommands, c \in ExecCalls :
        ExecuteCommandAs("restart_service", command, c.fault, c.text, c.hangs)

\* get_pods_cmd = f"kubectl -n {namespace} get pods | grep \"{container_filter}\""
GetContainerInfo ==
    \E c \in ExecCalls :
        ExecuteCommandAs("get_container_info",
                         << "kubectl", "get", "pods", "|", "grep" >>,
                         c.fault, c.text, c.hangs)

ExecOps == { "execute_command", "execute_in_container", "restart_service",
             "get_container_info" }

ReNext ==
    \/ Connect
    \/ ReDisconnect
    \/ SwitchToRoot
    \/ ExecuteCommand
    \/ ExecuteInContainer
    \/ RestartService
    \/ GetContainerInfo
    \/ TimeoutElapses
    \/ ExecuteCommandReturn

\* --------------------------------------------------------------- TestRunner
\* The threads that run execute_test_script on the one TestRunner: the caller
\* of execute_test_script, and the thread execute_test_script_async starts.
\* stop_test, set_output_callback and is_script_running are called from a
\* further thread.
RunThreads == { "caller", "worker" }

\* Exit codes are texts: "0" and "1" of a script that ends by itself, "-15"
\* and "-9" of one ended by SIGTERM or SIGKILL, "none" while Popen.returncode
\* is None.
NoChild == [state |-> "absent", code |-> "none"]

\* A thread that is not inside execute_test_script or run_script.
NoRun == [pc |-> "idle", own |-> None, return_code |-> "none"]

\* No stop_test call in progress.
NoStop == [pc |-> "idle", target |-> None, h |-> None, calls |-> << >>]

\* tr_last while no operation has just returned: the record of a return
\* stands in the state the return leads to and is gone with the next step.
NoReturn == [op |-> "init"]

\* No validate_script call yet.
NoValidation == [op |-> "init"]

TrInit ==
    /\ tr_process = None
    /\ tr_is_running = FALSE
    /\ tr_output_callback = FALSE
    /\ tr_child = [h \in 1..MaxRuns |-> NoChild]
    /\ tr_run = [th \in RunThreads |-> NoRun]
    /\ tr_stop = NoStop
    /\ tr_last = NoReturn
    /\ tr_validated = NoValidation

\* What can go wrong before the child exists: os.path.exists is false,
\* os.chmod raises, subprocess.Popen raises.
LaunchFaults == { "none", "missing", "chmod_raises", "popen_raises" }

\* Exit codes of a script that ends by itself.
ExitCodes == { "0", "1" }

\* How a live child takes SIGTERM, and terminate() itself raising.
TerminateOutcomes == { "dies", "ignores", "raises" }

Alive(h) == h # None /\ tr_child[h].state = "alive"

\* Popen.poll() / Popen.wait() on a child that has ended collects it.
Reap(child, h) ==
    IF h # None /\ child[h].state = "exited"
    THEN [child EXCEPT ![h].state = "reaped"]
    ELSE child

\* The Popen objects not created yet.
Unused == { h \in 1..MaxRuns : tr_child[h].state = "absent" }

RunningKept(is_running) == is_running

\* self.is_running = False in the except clause of execute_test_script
RunningAfterExcept(is_running) == FALSE

\* self.output_callback = callback
SetOutputCallback ==
    /\ \E callback \in BOOLEAN :
        /\ callback # tr_output_callback
        /\ tr_output_callback' = callback
    /\ tr_last' = NoReturn
    /\ UNCHANGED << tr_process, tr_is_running, tr_child, tr_run, tr_stop, tr_validated >>
    /\ UNCHANGED << ft_vars, re_vars, up_vars >>

\* What the caller of execute_test_script gets, with the state the child of
\* that call (own, None if none was launched) is in at that moment.
RunReturned(th, ret, fault, own, child) ==
    [op |-> "execute_test_script", thread |-> th, ret |-> ret, fault |-> fault,
     own |-> own,
     own_state |-> IF own = None THEN "absent" ELSE child[own].state,
     own_code |-> IF own = None THEN "none" ELSE child[own].code]

\* The thread after execute_test_script returned: run_script goes on to the
\* completion callback, the direct caller is done.
AfterReturn(th, own) ==
    IF th = "worker" THEN [pc |-> "returned", own |-> own, return_code |-> "none"]
    ELSE NoRun

\* execute_test_script up to and including subprocess.Popen(...).
StartRun(th) ==
    /\ tr_run[th].pc = "idle"
    /\ \E fault \in LaunchFaults :
        IF fault = "none"
        THEN /\ Unused # {}
             /\ LET h == CHOOSE x \in Unused : \A y \in Unused : x <= y
                IN  /\ tr_child' = [tr_child EXCEPT ![h] =
                                        [state |-> "alive", code |-> "none"]]
                    /\ tr_process' = h
                    /\ tr_run' = [tr_run EXCEPT ![th] =
                                      [pc |-> "launched", own |-> h,
                                       return_code |-> "none"]]
             /\ tr_last' = NoReturn
             /\ UNCHANGED tr_is_running
        ELSE /\ tr_run' = [tr_run EXCEPT ![th] = AfterReturn(th, None)]
             /\ tr_is_running' = IF fault = "missing" THEN tr_is_running
                                 ELSE RunningAfterExcept(tr_is_running)
             /\ tr_last' = RunReturned(th, IF fault = "missing" THEN "False"
                                           ELSE ExceptReturn(TRUE),
                                       fault, None, tr_child)
             /\ UNCHANGED << tr_process, tr_child >>
    /\ UNCHANGED << tr_output_callback, tr_stop, tr_validated >>
    /\ UNCHANGED << ft_vars, re_vars, up_vars >>

ExecuteTestScript == StartRun("caller")

\* thread = threading.Thread(target=run_script); thread.start()
ExecuteTestScriptAsync == StartRun("worker")

\* self.is_running = True
RunSetRunning ==
    \E th \in RunThreads :
        /\ tr_run[th].pc = "launched"
        /\ tr_is_running' = TRUE
        /\ tr_run' = [tr_run EXCEPT ![th].pc = "loop"]
        /\ tr_last' = NoReturn
        /\ UNCHANGED << tr_process, tr_output_callback, tr_child, tr_stop, tr_validated >>
        /\ UNCHANGED << ft_vars, re_vars, up_vars >>

\* readline() hands over a line of output and the output callback, which is
\* set, raises on it. (A line that raises nothing changes no state.)
RunOutputLine ==
    \E th \in RunThreads :
        /\ tr_run[th].pc = "loop"
        /\ tr_output_callback
        /\ tr_is_running' = RunningAfterExcept(tr_is_running)
        /\ tr_run' = [tr_run EXCEPT ![th] = AfterReturn(th, tr_run[th].own)]
        /\ tr_last' = RunReturned(th, ExceptReturn(TRUE), "callback_raises",
                                  tr_run[th].own, tr_child)
        /\ UNCHANGED << tr_process, tr_output_callback, tr_child, tr_stop,
                        tr_validated >>
        /\ UNCHANGED << ft_vars, re_vars, up_vars >>

\* readline() returns '' and self.process.poll() is not None: the loop ends and
\* self.process.wait() returns the exit code of that process.
RunLoopEnd ==
    \E th \in RunThreads :
        /\ tr_run[th].pc = "loop"
        /\ tr_process # None
        /\ tr_child[tr_process].state \in { "exited", "reaped" }
        /\ tr_child' = Reap(tr_child, tr_process)
        /\ tr_run' = [tr_run EXCEPT ![th].pc = "after_wait",
                                    ![th].return_code = tr_child[tr_process].code]
        /\ tr_last' = NoReturn
        /\ UNCHANGED << tr_process, tr_is_running, tr_output_callback, tr_stop,
                        tr_validated >>
        /\ UNCHANGED << ft_vars, re_vars, up_vars >>

\* if return_code == 0: ... return True  else: ... return False
RunReturn(return_code) == IF return_code = "0" THEN "True" ELSE "False"

\* self.is_running = False and the return of execute_test_script
RunFinish ==
    \E th \in RunThreads :
        /\ tr_run[th].pc = "after_wait"
        /\ tr_is_running' = FALSE
        /\ tr_run' = [tr_run EXCEPT ![th] = AfterReturn(th, tr_run[th].own)]
        /\ tr_last' = RunReturned(th, RunReturn(tr_run[th].return_code), "none",
                                  tr_run[th].own, tr_child)
        /\ UNCHANGED << tr_process, tr_output_callback, tr_child, tr_stop,
                        tr_validated >>
        /\ UNCHANGED << ft_vars, re_vars, up_vars >>

\* if completion_callback: completion_callback(success)
\* The record keeps the state the child of this call is in at that moment.
RunComplete ==
    /\ tr_run["worker"].pc = "returned"
    /\ tr_run' = [tr_run EXCEPT !["worker"] = NoRun]
    /\ tr_last' = [op |-> "completion_callback", thread |-> "worker",
                   own |-> tr_run["worker"].own,
                   own_state |-> IF tr_run["worker"].own = None THEN "absent"
                                 ELSE tr_child[tr_run["worker"].own].state]
    /\ UNCHANGED << tr_process, tr_is_running, tr_output_callback, tr_child,
                    tr_stop, tr_validated >>
    /\ UNCHANGED << ft_vars, re_vars, up_vars >>

\* The script ends by itself.
ChildExits ==
    \E h \in 1..MaxRuns, code \in ExitCodes :
        /\ tr_child[h].state = "alive"
        /\ tr_child' = [tr_child EXCEPT ![h] = [state |-> "exited", code |-> code]]
        /\ tr_last' = NoReturn
        /\ UNCHANGED << tr_process, tr_is_running, tr_output_callback, tr_run,
                        tr_stop, tr_validated >>
        /\ UNCHANGED << ft_vars, re_vars, up_vars >>

\* One call stop_test made on a Popen object.
StopCall(call, h, effect) == [call |-> call, h |-> h, effect |-> effect]

\* What the caller of stop_test gets: the calls it made, the process that
\* self.process was when it was called (target) and the state that process
\* and the running flag are in at the return.
StopReturned(ret, target, calls, child, is_running) ==
    [op |-> "stop_test", ret |-> ret, target |-> target, calls |-> calls,
     target_state |-> IF target = None THEN "absent" ELSE child[target].state,
     is_running |-> is_running]

StopGuardProcessOnly(process, is_running) == process # None

\* if self.process and self.is_running:
StopGuard(process, is_running) == process # None /\ is_running

\* stop_test up to the call of self.process.wait(timeout=10), or all of it
\* when there is nothing to stop or terminate() raises.
StopTest ==
    /\ tr_stop.pc = "idle"
    /\ IF StopGuard(tr_process, tr_is_running)
       THEN \E outcome \in TerminateOutcomes :
            /\ outcome = "raises" \/ Alive(tr_process) \/ outcome = "dies"
            /\ tr_child' =
                   IF outcome = "raises" THEN tr_child
                   ELSE IF Alive(tr_process) /\ outcome = "dies"
                   THEN [tr_child EXCEPT ![tr_process] =
                             [state |-> "exited", code |-> "-15"]]
                   ELSE Reap(tr_child, tr_process)
            /\ IF outcome = "raises"
               THEN /\ tr_last' = StopReturned(ExceptReturn(TRUE), tr_process,
                                      << StopCall("terminate", tr_process, "raised") >>,
                                      tr_child, tr_is_running)
                    /\ UNCHANGED tr_stop
               ELSE /\ tr_stop' = [pc |-> "grace", target |-> tr_process,
                                   h |-> tr_process,
                                   calls |-> << StopCall("terminate", tr_process,
                                                   IF Alive(tr_process) THEN "signal"
                                                   ELSE "none") >>]
                    /\ tr_last' = NoReturn
       ELSE /\ tr_last' = StopReturned("False", tr_process, << >>, tr_child,
                                       tr_is_running)
            /\ UNCHANGED << tr_child, tr_stop >>
    /\ UNCHANGED << tr_process, tr_is_running, tr_output_callback, tr_run, tr_validated >>
    /\ UNCHANGED << ft_vars, re_vars, up_vars >>

\* The last lines of the branch: self.is_running = False ... return True
StopReturnTrue(call) ==
    /\ tr_child' = Reap(tr_child, tr_stop.h)
    /\ tr_is_running' = FALSE
    /\ tr_stop' = NoStop
    /\ tr_last' = StopReturned("True", tr_stop.target, Append(tr_stop.calls, call),
                               Reap(tr_child, tr_stop.h), FALSE)
    /\ UNCHANGED << tr_process, tr_output_callback, tr_run, tr_validated >>
    /\ UNCHANGED << ft_vars, re_vars, up_vars >>

KillAlways(expired) == TRUE

\* except subprocess.TimeoutExpired: the kill is reached only from there.
Kill(expired) == expired

\* self.process.kill() and the call of self.process.wait(): both go to
\* self.process as it is at that moment.
StopKill(waited) ==
    /\ \E kill_raises \in BOOLEAN :
        LET sent  == ~kill_raises /\ Alive(tr_process)
            calls == tr_stop.calls \o
                     << waited,
                        StopCall("kill", tr_process,
                                 IF kill_raises THEN "raised"
                                 ELSE IF sent THEN "signal" ELSE "none") >>
        IN  /\ tr_child' =
                   IF sent
                   THEN [tr_child EXCEPT ![tr_process] =
                             [state |-> "exited", code |-> "-9"]]
                   ELSE IF kill_raises THEN tr_child
                   ELSE Reap(tr_child, tr_process)
            /\ IF kill_raises
               THEN /\ tr_stop' = NoStop
                    /\ tr_last' = StopReturned(ExceptReturn(TRUE), tr_stop.target,
                                               calls, tr_child, tr_is_running)
               ELSE /\ tr_stop' = [tr_stop EXCEPT !.pc = "reap", !.h = tr_process,
                                                  !.calls = calls]
                    /\ tr_last' = NoReturn
    /\ UNCHANGED << tr_process, tr_is_running, tr_output_callback, tr_run, tr_validated >>
    /\ UNCHANGED << ft_vars, re_vars, up_vars >>

\* self.process.wait(timeout=10) returns: the process it waits for has ended.
StopGraceReturn ==
    /\ tr_stop.pc = "grace"
    /\ ~Alive(tr_stop.h)
    /\ IF Kill(FALSE)
       THEN StopKill(StopCall("wait_timeout", tr_stop.h, "returned"))
       ELSE StopReturnTrue(StopCall("wait_timeout", tr_stop.h, "returned"))

\* wait(timeout=10) ends after the grace period: it raises TimeoutExpired when
\* the process it waits for is still alive.
StopGraceTimeout ==
    /\ tr_stop.pc = "grace"
    /\ Alive(tr_stop.h)
    /\ IF Kill(TRUE)
       THEN StopKill(StopCall("wait_timeout", tr_stop.h, "expired"))
       ELSE StopReturnTrue(StopCall("wait_timeout", tr_stop.h, "expired"))

\* self.process.wait() after the kill returns.
StopReapReturn ==
    /\ tr_stop.pc = "reap"
    /\ ~Alive(tr_stop.h)
    /\ StopReturnTrue(StopCall("wait", tr_stop.h, "returned"))

\* return self.is_running and self.process and self.process.poll() is None
is_script_running == tr_is_running /\ tr_process # None /\ Alive(tr_process)

\* The call of is_script_running: poll() collects a child that has ended.
IsScriptRunning ==
    /\ tr_is_running
    /\ tr_process # None
    /\ tr_child[tr_process].state = "exited"
    /\ tr_child' = Reap(tr_child, tr_process)
    /\ tr_last' = NoReturn
    /\ UNCHANGED << tr_process, tr_is_running, tr_output_callback, tr_run, tr_stop,
                    tr_validated >>
    /\ UNCHANGED << ft_vars, re_vars, up_vars >>

\* ---------------------------------------------------------- validate_script
\* First lines a script file may have, as characters.
FirstLines ==
    { << "#", "!", "s", "h", "\n" >>, << " ", "#", "!", "s", "h", "\n" >>,
      << "e", "c", "h", "o", "\n" >>, << "#", "\n" >>, << >> }

\* How open(..., encoding='utf-8') and readline() end on a readable file.
OpenOutcomes == { "ok", "raises", "undecodable" }

\* What validate_script is called on: the path argument (empty or not) and
\* what the file system holds at it. A path that is empty or absent is no file;
\* open() and the first line only matter for a file that may be read.
Scripts ==
    { s \in [path_empty : BOOLEAN, exists : BOOLEAN, isfile : BOOLEAN,
             readable : BOOLEAN, opens : OpenOutcomes, first_line : FirstLines] :
        /\ s.path_empty => ~s.exists
        /\ ~s.exists => ~s.isfile /\ ~s.readable
        /\ ~(s.isfile /\ s.readable) => s.opens = "raises"
        /\ s.opens # "ok" => s.first_line = << >> }

Whitespace == { " ", "\n" }

\* str.strip()
RECURSIVE Strip(_)
Strip(line) ==
    IF Len(line) = 0 THEN line
    ELSE IF Head(line) \in Whitespace THEN Strip(Tail(line))
    ELSE IF line[Len(line)] \in Whitespace THEN Strip(SubSeq(line, 1, Len(line) - 1))
    ELSE line

\* str.startswith(prefix)
StartsWith(text, prefix) ==
    Len(text) >= Len(prefix) /\ SubSeq(text, 1, Len(prefix)) = prefix

BinaryIsInvalid(script) == "False"

\* except UnicodeDecodeError: return True, "... (binary executable)"
BinaryIsValid(script) == "True"

\* validate_script(script_path): the pair it returns.
ValidateResult(script) ==
    IF script.path_empty
    THEN [ret |-> "False", message |-> "Script path is empty"]
    ELSE IF ~script.exists
    THEN [ret |-> "False", message |-> "Script file does not exist"]
    ELSE IF ~script.isfile
    THEN [ret |-> "False", message |-> "Path is not a file"]
    ELSE IF ~script.readable
    THEN [ret |-> "False", message |-> "Script file is not readable"]
    ELSE IF script.opens = "undecodable"
    THEN [ret |-> BinaryIsValid(script),
          message |-> "Script validation passed (binary executable)"]
    ELSE IF script.opens = "raises"
    THEN [ret |-> ExceptReturn(TRUE), message |-> "Script validation error"]
    ELSE IF StartsWith(Strip(script.first_line), << "#", "!" >>)
    THEN [ret |-> "True", message |-> "Script validation passed"]
    ELSE [ret |-> "True",
          message |-> "Script validation passed (no shebang found, but file is readable)"]

ValidateScript ==
    /\ \E script \in Scripts :
        tr_validated' = [op |-> "validate_script", script |-> script,
                         ret |-> ValidateResult(script).ret,
                         message |-> ValidateResult(script).message]
    /\ UNCHANGED << tr_process, tr_is_running, tr_output_callback, tr_child, tr_run,
                    tr_stop, tr_last >>
    /\ UNCHANGED << ft_vars, re_vars, up_vars >>

TrNext ==
    \/ SetOutputCallback
    \/ ExecuteTestScript
    \/ ExecuteTestScriptAsync
    \/ RunSetRunning
    \/ RunOutputLine
    \/ RunLoopEnd
    \/ RunFinish
    \/ RunComplete
    \/ ChildExits
    \/ StopTest
    \/ StopGraceReturn
    \/ StopGraceTimeout
    \/ StopReapReturn
    \/ IsScriptRunning

Init == FtInit /\ ReInit /\ UpInit /\ TrInit

Next == FtNext \/ ReNext \/ TrNext \/ ValidateScript

\* The two session objects share no state; Spec is their free interleaving,
\* SpecFT and SpecRE exercise one object while the other stays as constructed.
Spec == Init /\ [][Next]_vars

SpecFT == Init /\ [][FtNext]_vars

SpecRE == Init /\ [][ReNext]_vars

\* The file transfer session after one connect_to_server that succeeded.
FtConnected ==
    /\ ft_ssh_client = 1
    /\ ft_sftp_client = 1
    /\ ft_transport = [o \in 1..MaxConnects |-> IF o = 1 THEN "live" ELSE "absent"]
    /\ ft_channel = [o \in 1..MaxConnects |-> IF o = 1 THEN "open" ELSE "absent"]
    /\ ft_pc = "idle"
    /\ ft_file_configs = << >>
    /\ ft_i = 0
    /\ ft_attempts = << >>
    /\ ft_ret = "True"
    /\ ft_last = "connect_to_server"
    /\ ft_closes = << >>

\* upload_file_to_staging called once, on a session that was never connected
\* or is connected, against every remote tree and with or without an older
\* staging file.
InitUpload ==
    /\ FtInit \/ FtConnected
    /\ ReInit
    /\ TrInit
    /\ up_tree \in RemoteTrees
    /\ up_file \in { Absent, << "y", "y", "y" >> }
    /\ up_last = NoUpload

SpecUpload == InitUpload /\ [][UploadFileToStaging]_vars

\* connect and disconnect of both session objects, nothing else.
LifeNext ==
    \/ ConnectToServer
    \/ Disconnect
    \/ Connect
    \/ ReDisconnect

SpecLife == Init /\ [][LifeNext]_vars

\* One TestRunner, its run threads and its stop_test caller.
SpecTR == Init /\ [][TrNext]_vars

\* The TestRunner while its first run, called directly, is in the output loop
\* with the child in the given state.
TrRunning(child) ==
    /\ tr_process = 1
    /\ tr_is_running = TRUE
    /\ tr_child = [h \in 1..MaxRuns |-> IF h = 1 THEN child ELSE NoChild]
    /\ tr_run = [th \in RunThreads |->
                    IF th = "caller"
                    THEN [pc |-> "loop", own |-> 1, return_code |-> "none"]
                    ELSE NoRun]

\* The TestRunner after its first run ended with the given exit code and
\* execute_test_script returned.
TrFinished(code) ==
    /\ tr_process = 1
    /\ tr_is_running = FALSE
    /\ tr_child = [h \in 1..MaxRuns |->
                      IF h = 1 THEN [state |-> "reaped", code |-> code] ELSE NoChild]
    /\ tr_run = [th \in RunThreads |-> NoRun]

\* validate_script called on a TestRunner that has run nothing, is running a
\* script, or has finished one, with or without an output callback.
InitValidate ==
    /\ FtInit
    /\ ReInit
    /\ UpInit
    /\ tr_output_callback \in BOOLEAN
    /\ tr_stop = NoStop
    /\ tr_last = NoReturn
    /\ tr_validated = NoValidation
    /\ \/ /\ tr_process = None
          /\ tr_is_running = FALSE
          /\ tr_child = [h \in 1..MaxRuns |-> NoChild]
          /\ tr_run = [th \in RunThreads |-> NoRun]
       \/ TrRunning([state |-> "alive", code |-> "none"])
       \/ \E code \in ExitCodes : TrRunning([state |-> "exited", code |-> code])
       \/ \E code \in ExitCodes : TrFinished(code)

SpecValidate == InitValidate /\ [][ValidateScript]_vars

\* connect_to_server and batch_upload_files with its three stages.
FtOps ==
    \/ ConnectToServer
    \/ BatchUploadFiles
    \/ BatchLoop
    \/ BatchUpload
    \/ BatchCopy
    \/ BatchPerm

\* connect, switch_to_root and execute_command.
ReOps ==
    \/ Connect
    \/ SwitchToRoot
    \/ ExecuteCommand
    \/ TimeoutElapses
    \/ ExecuteCommandReturn

\* The TestRunner used from one thread that runs scripts and one that stops.
TrOps ==
    \/ SetOutputCallback
    \/ ExecuteTestScript
    \/ RunSetRunning
    \/ RunOutputLine
    \/ RunLoopEnd
    \/ RunFinish
    \/ ChildExits
    \/ StopTest
    \/ StopGraceReturn
    \/ StopGraceTimeout
    \/ StopReapReturn

\* Each of the three objects used on its own, the two others left as
\* constructed: the operations that return a verdict, in every state they
\* lead their own object to.
OpsNext ==
    \/ ReInit /\ TrInit /\ FtOps
    \/ FtInit /\ TrInit /\ ReOps
    \/ FtInit /\ ReInit /\ TrOps

SpecOps == Init /\ [][OpsNext]_vars

\* ------------------------------------------------------------------ claims
StageIndex(k) == ((k - 1) % 3) + 1

FileIndex(k) == ((k - 1) \div 3) + 1

HasFailure(attempts) == \E k \in 1..Len(attempts) : ~attempts[k].ok

BatchReturned == ft_last = "batch_upload_files" /\ ft_pc = "idle"

\* C1: batch_upload_files makes its stage calls file by file in input order,
\* each file's stages in the order upload, copy, permission set, and every
\* stage call but the last one made has returned success (so a stage is
\* started only after all earlier stages of this and of every earlier file
\* succeeded).
C1_StagesInOrder ==
    \A k \in 1..Len(ft_attempts) :
        /\ ft_attempts[k].file = FileIndex(k)
        /\ FileIndex(k) <= Len(ft_file_configs)
        /\ ft_attempts[k].config = ft_file_configs[FileIndex(k)]
        /\ ft_attempts[k].stage = Stages[StageIndex(k)]
        /\ (k < Len(ft_attempts) => ft_attempts[k].ok)

\* Two different files went through the pipeline, the second after the first.
C1_Witness ==
    /\ Len(ft_attempts) = 6
    /\ ft_attempts[1].config = CfgB
    /\ ft_attempts[4].config = CfgA
    /\ ft_attempts[6].ok

\* C2: once a stage call of the running batch_upload_files has returned
\* failure, no further stage call is made in that run: the list of stage
\* calls stays as it is until another run starts from an empty list.
C2_NothingAfterFailure ==
    [][HasFailure(ft_attempts) =>
          \/ ft_attempts' = ft_attempts
          \/ ft_attempts' = << >>]_vars

\* The first file's copy failed with a second file waiting.
C2_Witness ==
    /\ BatchReturned
    /\ Len(ft_file_configs) = 2
    /\ Len(ft_attempts) = 2
    /\ ~ft_attempts[2].ok

AllStagesSucceeded ==
    \A i \in 1..Len(ft_file_configs) :
        \A st \in 1..3 :
            \E k \in 1..Len(ft_attempts) :
                /\ ft_attempts[k].file = i
                /\ ft_attempts[k].stage = Stages[st]
                /\ ft_attempts[k].ok

\* C3: batch_upload_files returns True exactly when every file of the input
\* completed upload, copy and permission set successfully, and False in every
\* other case (a failed stage, a config that cannot be read).
C3_TrueIffAllStages ==
    BatchReturned =>
        /\ ft_ret \in { "True", "False" }
        /\ (ft_ret = "True") <=> AllStagesSucceeded

\* A run over a config without the 'permissions' key after a good first file.
C3_Witness ==
    /\ BatchReturned
    /\ ft_file_configs = << CfgA, CfgNoPerm >>
    /\ Len(ft_attempts) = 3
    /\ ft_ret = "False"

\* The marker occurs somewhere in the text.
HasMarker(text) ==
    \E i \in 1..Len(text) :
        /\ i + Len(Marker) - 1 <= Len(text)
        /\ \A j \in 1..Len(Marker) : text[i + j - 1] = Marker[j]

\* C4: switch_to_root makes is_root true exactly when the output it read after
\* the probe contains the marker; when it read no output, or output without
\* the marker, it returns False and is_root is what it was before the call.
C4_ElevatedIffMarker ==
    re_last.op = "switch_to_root" =>
        /\ (re_last.judged /\ HasMarker(re_last.output)) => is_root
        /\ ~(re_last.judged /\ HasMarker(re_last.output)) =>
                /\ re_last.ret = "False"
                /\ is_root = re_last.pre_is_root

\* The probe output was a refusal without the marker and the flag stayed false.
C4_Witness ==
    /\ re_last.op = "switch_to_root"
    /\ re_last.judged
    /\ re_last.output = << "d", "e", "n", "i", "e", "d" >>
    /\ re_last.ret = "False"
    /\ ~is_root

\* C5: whenever switch_to_root returns False, is_root and root_password have
\* the values they had before the call.
C5_FailureLeavesStateUnchanged ==
    (re_last.op = "switch_to_root" /\ re_last.ret = "False") =>
        /\ is_root = re_last.pre_is_root
        /\ root_password = re_last.pre_password

\* C6: a call of switch_to_root that opened a channel has closed it when it
\* returns, also when a send or a receive raised (the case in which close()
\* itself raises is left aside).
C6_ChannelClosedOnReturn ==
    (re_last.op = "switch_to_root" /\ re_last.chan_opened /\ re_last.raised # "close") =>
        re_last.chan_closed

\* C7: every exec_command issued by execute_command, execute_in_container,
\* restart_service or get_container_info requests a pseudo-terminal exactly
\* when is_root is true.
C7_PtyIffElevated ==
    (re_last.op \in ExecOps /\ re_last.exec_called) =>
        re_last.get_pty = is_root

\* A command ran in the container on an elevated session, with a pseudo-terminal.
C7_Witness ==
    /\ re_last.op = "execute_in_container"
    /\ re_last.exec_called
    /\ is_root
    /\ re_last.get_pty

\* C8: execute_command before any connect or after disconnect returns failure
\* at once, without issuing exec_command on an SSH client.
C8_NotConnectedIsLocal ==
    (/\ re_last.op = "execute_command"
     /\ re_pc = "idle"
     /\ re_last.pre_life \in { "new", "disconnected" }) =>
        /\ re_last.ret = "False"
        /\ ~re_last.exec_called

HoldsLiveTransport ==
    ft_ssh_client # None /\ ft_transport[ft_ssh_client] = "live"

HoldsLiveChannel ==
    ft_sftp_client # None /\ SftpLive(ft_sftp_client)

\* C9: when connect_to_server returns False the session holds no live
\* transport and no live file channel.
C9_FailedConnectLeavesDisconnected ==
    (ft_last = "connect_to_server" /\ ft_ret = "False") =>
        ~HoldsLiveTransport /\ ~HoldsLiveChannel

\* C10: after disconnect() the session holds neither a live file channel nor a
\* live transport, also when a close() raised (a close() that raises without
\* releasing its object is left aside).
C10_DisconnectReleasesAll ==
    (/\ ft_last = "disconnect"
     /\ \A k \in 1..Len(ft_closes) : ft_closes[k].outcome # "raises_live") =>
        ~HoldsLiveTransport /\ ~HoldsLiveChannel

\* C11: no call of disconnect() raises to its caller, on either session object
\* and in whatever state it is called; a call made while the object holds no
\* client (never connected, or already disconnected) calls no close() and
\* leaves the object without client. (A step that changes an object's
\* variables and leaves "disconnect" as its last operation is a disconnect().)
C11_DisconnectIsSafe ==
    [][/\ (ft_last' = "disconnect" /\ ft_vars' # ft_vars) =>
            /\ ft_ret' = "None"
            /\ (ft_ssh_client = None /\ ft_sftp_client = None) =>
                    /\ ft_closes' = << >>
                    /\ ft_ssh_client' = None
                    /\ ft_sftp_client' = None
                    /\ ft_transport' = ft_transport
                    /\ ft_channel' = ft_channel
       /\ (re_last'.op = "disconnect" /\ re_vars' # re_vars) =>
            /\ re_last'.ret = "None"
            /\ re_ssh_client = None =>
                    /\ ~re_last'.close_called
                    /\ re_ssh_client' = None
                    /\ re_transport' = re_transport]_vars

\* disconnect() ran a second time on a file transfer session that an earlier
\* disconnect() had already emptied, after a close() had raised in the
\* executor's disconnect().
C11_Witness ==
    /\ ft_last = "disconnect"
    /\ ft_closes = << >>
    /\ ft_ssh_client = None
    /\ \E o \in 1..MaxConnects : ft_transport[o] = "closed"
    /\ re_last.op = "disconnect"
    /\ re_last.close_called
    /\ re_ssh_client # None

\* C12: whatever connects and disconnects were called on a session object, at
\* most one transport it opened is live and at most one file channel it opened
\* is open.
C12_AtMostOneLive ==
    /\ Cardinality({ o \in 1..MaxConnects : ft_transport[o] = "live" }) <= 1
    /\ Cardinality({ o \in 1..MaxConnects : SftpLive(o) }) <= 1
    /\ Cardinality({ o \in 1..MaxConnects : re_transport[o] = "live" }) <= 1

\* C13: execute_command does not stay blocked past its timeout: once the
\* timeout has elapsed while it waits for the exit status, it can return, also
\* when the remote process never exits.
C13_ReturnsAfterTimeout ==
    (re_pc = "recv_exit_status" /\ re_timed_out) => ENABLED ExecuteCommandReturn

\* The results execute_command can return for a command that exited with a
\* non-zero status.
NonZeroExitResults ==
    { CommandResult("exit", 1, o[1], o[2], "") : o \in Outputs }

\* C14: the tuple execute_command returns after a timeout differs from every
\* tuple it can return for a command that exited with a non-zero status.
C14_TimeoutDistinct ==
    (re_last.op = "execute_command" /\ re_last.kind = "timeout") =>
        << re_last.ret, re_last.out, re_last.err >> \notin NonZeroExitResults

\* ceil(n / c) sizes: c for every full chunk, the remainder for the last.
ExpectedSizes(n, c) ==
    [k \in 1..((n + c - 1) \div c) |-> IF k * c <= n THEN c ELSE n - (k - 1) * c]

WriteSizes(writes) == [k \in 1..Len(writes) |-> Len(writes[k].chunk)]

AttemptsOf(i, stage) ==
    { k \in 1..Len(ft_attempts) : ft_attempts[k].file = i /\ ft_attempts[k].stage = stage }

\* C16: a successful upload of a file of n bytes has made exactly ceil(n / c)
\* remote writes for chunk size c, each of c bytes except a shorter last one
\* (none for an empty file), for every n up to MaxFileLen and for the files
\* the runs upload; and a run of batch_upload_files that returned
\* True has issued, for every file, exactly one copy command and exactly one
\* permission command, both after the file's upload.
C16_WritesAndCommands ==
    /\ \A n \in 0..MaxFileLen :
            LET up == UploadChunks([b \in 1..n |-> "x"], 0, ChunkSize, 0, 0)
            IN  ~up.raised /\ WriteSizes(up.writes) = ExpectedSizes(n, ChunkSize)
    /\ \A k \in 1..Len(ft_attempts) :
            (ft_attempts[k].stage = "upload" /\ ft_attempts[k].ok) =>
                /\ WriteSizes(ft_attempts[k].writes) =
                        ExpectedSizes(Len(LocalContent(ft_attempts[k].config.local_path)),
                                      ChunkSize)
                /\ \A w \in 1..Len(ft_attempts[k].writes) : ft_attempts[k].writes[w].ok
    /\ (BatchReturned /\ ft_ret = "True") =>
            \A i \in 1..Len(ft_file_configs) :
                /\ Cardinality(AttemptsOf(i, "upload")) = 1
                /\ Cardinality(AttemptsOf(i, "copy")) = 1
                /\ Cardinality(AttemptsOf(i, "chmod")) = 1
                /\ \A u \in AttemptsOf(i, "upload"), c \in AttemptsOf(i, "copy"),
                      p \in AttemptsOf(i, "chmod") :
                        /\ u < c /\ c < p
                        /\ ft_attempts[c].issued /\ ft_attempts[p].issued

\* A run over the five-byte file and the empty file returned True: three
\* writes, the last one shorter, for the first, and no write for the second.
C16_Witness ==
    /\ BatchReturned
    /\ ft_ret = "True"
    /\ ft_file_configs = << CfgA, CfgB >>
    /\ Len(ft_attempts[1].writes) = 3
    /\ Len(ft_attempts[1].writes[3].chunk) < ChunkSize
    /\ ft_attempts[4].writes = << >>

\* C19: on a connected session, a copy or permission command whose filter
\* matches no pod is still issued, ends with a non-zero exit status, and makes
\* the operation return False.
C19_NoMatchIsOrdinaryFailure ==
    HoldsLiveTransport =>
        \A k \in 1..Len(ft_attempts) :
            (ft_attempts[k].stage \in { "copy", "chmod" } /\ ~ft_attempts[k].matched) =>
                /\ ft_attempts[k].issued
                /\ ft_attempts[k].exit_status > 0
                /\ ~ft_attempts[k].ok

\* The copy found its pod, the permission command after it found none.
C19_Witness ==
    /\ HoldsLiveTransport
    /\ BatchReturned
    /\ Len(ft_attempts) = 3
    /\ ft_attempts[2].ok
    /\ ft_attempts[3].stage = "chmod"
    /\ ~ft_attempts[3].matched
    /\ ft_attempts[3].issued
    /\ ft_ret = "False"

\* C20: no stage call is made for a config whose local_path or container_path
\* is empty.
C20_NoStageForEmptyPath ==
    \A k \in 1..Len(ft_attempts) :
        /\ ft_attempts[k].config.local_path # << >>
        /\ ft_attempts[k].config.container_path # << >>

\* The upload_file_to_staging call got past its guard.
UploadRan == up_last.op = "upload_file_to_staging" /\ ~up_last.guarded

\* C15: after a successful upload the remote file holds exactly the bytes of
\* the local file, in order, whatever the size of the local file (below,
\* equal to, above or a multiple of the chunk size) and whatever the remote
\* file held before.
C15_RemoteEqualsLocal ==
    (UploadRan /\ up_last.ret = "True") => up_file = up_last.content

\* A file one byte longer than a chunk replaced an older staging file.
C15_Witness ==
    /\ UploadRan
    /\ up_last.ret = "True"
    /\ Len(up_last.content) = ChunkSize + 1
    /\ up_last.file_before # Absent
    /\ up_file = up_last.content

\* Positions of the calls that raised.
RaisedCalls == { k \in 1..Len(up_last.calls) : up_last.calls[k].res = "raised" }

\* The upload failed in directory creation, in an open or in a write.
UploadFailed ==
    \/ up_last.ensure_raised
    \/ \E k \in RaisedCalls : up_last.calls[k].call \in { "open_local", "open", "write" }

\* The chunks whose write returned, in order.
StoredChunks ==
    LET ks == { k \in 1..Len(up_last.calls) :
                    up_last.calls[k].call = "write" /\ up_last.calls[k].res = "ok" }
    IN  [n \in 1..Cardinality(ks) |->
            up_last.calls[CHOOSE k \in ks :
                            Cardinality({ j \in ks : j <= k }) = n].arg]

RECURSIVE Flatten(_)
Flatten(chunks) ==
    IF chunks = << >> THEN << >> ELSE Head(chunks) \o Flatten(Tail(chunks))

\* C17: when directory creation, an open or a chunk write fails, the upload
\* makes no further call except closing the remote file (no write, no
\* removal), returns False, and the remote file keeps the chunks written
\* before the failure (it is untouched when it was not opened).
C17_FailureStopsWithoutRollback ==
    (UploadRan /\ UploadFailed) =>
        /\ up_last.ret = "False"
        /\ \A k \in RaisedCalls : \A j \in (k + 1)..Len(up_last.calls) :
                \/ up_last.calls[j].call = "close"
                \/ \E m \in RaisedCalls : m >= j
        /\ \A k \in 1..Len(up_last.calls) :
                up_last.calls[k].call \in { "stat", "mkdir", "step_start",
                                            "open_local", "open", "write", "close" }
        /\ up_file = IF \E k \in 1..Len(up_last.calls) :
                            up_last.calls[k].call = "open" /\ up_last.calls[k].res = "ok"
                     THEN Flatten(StoredChunks)
                     ELSE up_last.file_before

\* The second write of a longer file raised: the first chunk stayed.
C17_Witness ==
    /\ UploadRan
    /\ up_last.ret = "False"
    /\ Len(up_last.content) > ChunkSize
    /\ \E k \in RaisedCalls : /\ up_last.calls[k].call = "write"
                               /\ up_last.calls[k - 1].call = "write"
    /\ up_file = SubSeq(up_last.content, 1, ChunkSize)

EnsureCalls == up_last.ensure_calls

MkdirsOf(dir) ==
    { k \in 1..Len(EnsureCalls) : EnsureCalls[k].call = "mkdir" /\ EnsureCalls[k].arg = dir }

\* C18: _ensure_remote_directory ends; when it returns normally the directory
\* and all its ancestors exist; a mkdir that fails is followed by the look at
\* the parent when there is one and ends the method with an exception when
\* there is none; a directory is tried at most twice, and a second failure
\* ends the method with an exception.
C18_EnsureDirectory ==
    UploadRan =>
        LET d == Dirname(up_last.remote_path)
        IN  /\ Len(EnsureCalls) >= 1
            /\ ~up_last.ensure_raised =>
                    \A j \in 0..Len(d) : SubSeq(d, 1, j) \in up_tree
            /\ \A dir \in RemoteDirs : Cardinality(MkdirsOf(dir)) <= 2
            /\ \A k \in 1..Len(EnsureCalls) :
                    (EnsureCalls[k].call = "mkdir" /\ EnsureCalls[k].res = "raised") =>
                        LET dir == EnsureCalls[k].arg
                            first == \A j \in MkdirsOf(dir) : j >= k
                        IN  IF first /\ Dirname(dir) # dir
                            THEN /\ k < Len(EnsureCalls)
                                 /\ EnsureCalls[k + 1].call = "stat"
                                 /\ EnsureCalls[k + 1].arg = Dirname(dir)
                            ELSE /\ k = Len(EnsureCalls)
                                 /\ up_last.ensure_raised

\* Every directory below the top was missing and was created on the way back
\* from the top.
C18_Witness ==
    /\ UploadRan
    /\ ~up_last.ensure_raised
    /\ up_last.tree_before = { << >> }
    /\ Len(Dirname(up_last.remote_path)) = MaxDepth
    /\ up_tree = RemoteDirs

\* ------------------------------------------------------- claims, TestRunner
\* No thread is inside execute_test_script: no run was started, or every run
\* has returned (finished, failed or was stopped).
NoRunInProgress == \A th \in RunThreads : tr_run[th].pc \in { "idle", "returned" }

\* A step that is the call of stop_test.
StopTestStep ==
    /\ tr_stop.pc = "idle"
    /\ tr_stop'.pc = "grace" \/ tr_last'.op = "stop_test"

\* C21: stop_test called while no run is in progress (none started, or the
\* last one finished or was stopped) returns False, does not raise, calls
\* neither terminate nor kill, and leaves the process, the running flag, the
\* output callback and every child as they were.
C21_StopWithoutRunIsNoOp ==
    [][ (StopTestStep /\ NoRunInProgress) =>
            /\ tr_stop' = tr_stop
            /\ tr_last'.ret = "False"
            /\ tr_last'.calls = << >>
            /\ UNCHANGED << tr_process, tr_is_running, tr_output_callback,
                            tr_child, tr_run >> ]_vars

\* stop_test has returned False after a run that ended and was collected.
C21_Witness ==
    /\ tr_last.op = "stop_test"
    /\ tr_last.ret = "False"
    /\ NoRunInProgress
    /\ tr_last.target # None
    /\ tr_child[tr_last.target].state = "reaped"

\* stop_test has just returned True.
StopReturnedTrue == tr_last.op = "stop_test" /\ tr_last.ret = "True"

\* C22: when stop_test returns True the process it was called on is no longer
\* alive and has been collected, the running flag is false, and if that
\* process was still alive when the grace period ran out, kill was sent to it.
C22_StoppedProcessIsDead ==
    StopReturnedTrue =>
        /\ tr_child[tr_last.target].state = "reaped"
        /\ ~tr_is_running
        /\ \A k \in 1..Len(tr_last.calls) :
               tr_last.calls[k] = StopCall("wait_timeout", tr_last.target, "expired")
               => tr_last.calls[k + 1] = StopCall("kill", tr_last.target, "signal")

\* C23: whenever no thread is inside execute_test_script (every run has
\* returned: after its wait, after a launch failure or after an exception in
\* the output loop), is_running is false and is_script_running() is false,
\* whatever stop_test did in between.
C23_NotRunningAfterRun ==
    NoRunInProgress => ~tr_is_running /\ ~is_script_running

\* A run whose child ended and was collected has just returned.
C23_Witness ==
    /\ NoRunInProgress
    /\ tr_last.op = "execute_test_script"
    /\ tr_last.fault = "none"
    /\ tr_last.own_state = "reaped"

\* The child processes of this TestRunner that are alive.
LiveChildren == { h \in 1..MaxRuns : tr_child[h].state = "alive" }

\* C24: at most one child process launched by the TestRunner is alive at a
\* time.
C24_AtMostOneChild == Cardinality(LiveChildren) <= 1

\* C25: at the moment the completion callback of execute_test_script_async is
\* invoked, the child process launched for that call, if there is one, has
\* ended and been collected.
C25_CompletionAfterReap ==
    tr_last.op = "completion_callback" => tr_last.own_state \in { "absent", "reaped" }

\* C26: execute_test_script returns True exactly when it launched a child
\* process and that child's exit code is zero; with a non-zero exit code, a
\* child ended by stop_test, a missing script or a launch failure it returns
\* False.
C26_TrueIffExitZero ==
    tr_last.op = "execute_test_script" =>
        (tr_last.ret = "True" <=> (tr_last.own # None /\ tr_last.own_code = "0"))

\* What validate_script is to answer for a script: False for an empty path, a
\* path that does not exist, a path that is no file and a file without read
\* permission; True for a file that is read, with or without a shebang, and
\* for one that does not decode as text.
ExpectedValid(script) ==
    IF script.path_empty \/ ~script.exists \/ ~script.isfile \/ ~script.readable
    THEN { "False" }
    ELSE IF script.opens \in { "ok", "undecodable" } THEN { "True" }
    ELSE { "True", "False" }

\* C27: validate_script answers False for an empty, missing, directory or
\* unreadable path and True for a readable text file (shebang or not) and for
\* an undecodable file, and the call changes neither the process, nor the
\* running flag, nor the output callback of the TestRunner.
C27_ValidateScript ==
    [][ tr_validated' # tr_validated =>
            /\ tr_validated'.ret \in ExpectedValid(tr_validated'.script)
            /\ UNCHANGED << tr_process, tr_is_running, tr_output_callback,
                            tr_child >> ]_vars

\* validate_script has accepted an undecodable file while a script is running.
C27_Witness ==
    /\ tr_validated.op = "validate_script"
    /\ tr_validated.script.opens = "undecodable"
    /\ tr_validated.ret = "True"
    /\ tr_is_running

\* -------------------------------------------------- claims, logging order
\* C28: the log entry that announces an upload is written before the upload
\* makes its first remote call (in particular before any remote directory is
\* looked up or created).
C28_LogBeforeRemoteAction ==
    (UploadRan /\ up_last.calls # << >>) => up_last.calls[1].call = "step_start"

\* The calls of the stop_test in progress, or of the one that has just returned.
StopCalls == IF tr_last.op = "stop_test" THEN tr_last.calls ELSE tr_stop.calls

\* C30: stop_test calls kill() only after it called terminate() and its
\* wait(timeout=10) ran out with the process still alive; when that wait
\* returns because the process has ended, no kill() is made.
C30_KillOnlyAfterGrace ==
    \A k \in 1..Len(StopCalls) :
        /\ StopCalls[k].call = "kill" =>
              /\ k = 3
              /\ StopCalls[1].call = "terminate"
              /\ StopCalls[2].call = "wait_timeout"
              /\ StopCalls[2].effect = "expired"
        /\ (StopCalls[k].call = "wait_timeout" /\ StopCalls[k].effect = "returned") =>
              \A j \in 1..Len(StopCalls) : StopCalls[j].call # "kill"

\* stop_test has returned True after killing a process that ignored SIGTERM.
C30_Witness ==
    /\ StopReturnedTrue
    /\ Len(tr_last.calls) > 3
    /\ tr_last.calls[1] = StopCall("terminate", tr_last.target, "signal")
    /\ tr_last.calls[3] = StopCall("kill", tr_last.target, "signal")
    /\ tr_child[tr_last.target].state = "reaped"

\* -------------------------------------------- claims, exceptions contained
\* C29: no operation of the three classes lets an exception reach its caller:
\* connect_to_server and batch_upload_files with its three stages, connect,
\* switch_to_root and execute_command, execute_test_script and stop_test hand
\* back a value in every state, also when not connected and when a call on a
\* collaborator raises.
C29_NoExceptionEscapes ==
    /\ ft_ret # "raised"
    /\ re_last.ret # "raised"
    /\ tr_last.op \in { "execute_test_script", "stop_test" } => tr_last.ret # "raised"

\* batch_upload_files has returned False after exec_command raised in
\* copy_to_container.
C29_Witness ==
    /\ BatchReturned
    /\ ft_ret = "False"
    /\ Len(ft_attempts) > 0
    /\ ft_attempts[Len(ft_attempts)].stage = "copy"
    /\ ft_attempts[Len(ft_attempts)].issued
    /\ ft_attempts[Len(ft_attempts)].exit_status = -1

\* ------------------------------------------- claims, switch_to_root and session
\* The switch_to_root call wrote the identity probe on the channel.
ProbeSent ==
    /\ re_last.op = "switch_to_root"
    /\ re_last.sent # << >>
    /\ re_last.sent[Len(re_last.sent)] = Line(Whoami)

\* C31: a switch_to_root call that gets as far as the probe has made exactly
\* three writes on the channel, each ending with a newline: the switch
\* command, the password and the probe, whatever the password is (the empty
\* one included).
C31_ThreeWrites ==
    ProbeSent =>
        /\ Len(re_last.sent) = 3
        /\ \A k \in 1..Len(re_last.sent) :
               /\ re_last.sent[k] # << >>
               /\ re_last.sent[k][Len(re_last.sent[k])] = "\n"

\* C32: stop_test returns False only when no child process launched by the
\* TestRunner is alive, in particular not for a child that is launched while
\* is_running is not yet set.
C32_FalseOnlyWithoutChild ==
    (tr_last.op = "stop_test" /\ tr_last.ret = "False") => LiveChildren = {}

\* The replies of the remote shell that the output read by the last
\* switch_to_root can end with: the output is the reply, or the echoed
\* command line followed by the reply.
ProbeReplies ==
    { reply \in Replies :
        \E echoed \in { << >> } \cup SwitchCommands : re_last.output = echoed \o reply }

\* C33: switch_to_root returns True only when the remote reply to the probe
\* names the elevated identity; the marker inside the echoed switch command
\* does not make a refused switch count as elevated.
C33_TrueOnlyOnProbeReply ==
    (re_last.op = "switch_to_root" /\ re_last.ret = "True") =>
        \E reply \in ProbeReplies : HasMarker(reply)

\* C34: is_root is true only for an escalation made on the connection that is
\* open now: when no client is held, and right after a connect() that follows
\* a disconnect(), is_root is false.
C34_ElevatedOnlyOnThisConnection ==
    /\ re_ssh_client = None => ~is_root
    /\ (re_last.op = "connect" /\ re_last.pre_life = "disconnected") => ~is_root

\* ------------------------------------------------ claims, local file unreadable
\* The upload passed its guard and open(local_path, 'rb') raised.
LocalOpenFailed ==
    /\ UploadRan
    /\ \E k \in 1..Len(up_last.calls) :
           up_last.calls[k].call = "open_local" /\ up_last.calls[k].res = "raised"

\* C35: when the local file cannot be opened, upload_file_to_staging returns
\* False and has neither opened (created or emptied), nor written, nor closed
\* the remote file: the staging path holds what it held before, while the
\* remote directories may have been created.
C35_LocalOpenFailureLeavesRemoteFile ==
    LocalOpenFailed =>
        /\ up_last.ret = "False"
        /\ up_file = up_last.file_before
        /\ \A k \in 1..Len(up_last.calls) :
               up_last.calls[k].call \notin { "open", "write", "close" }
        /\ up_last.tree_before \subseteq up_tree

\* The local open failed after the remote directory was created, and the
\* older staging file is still there.
C35_Witness ==
    /\ LocalOpenFailed
    /\ up_tree # up_last.tree_before
    /\ up_last.file_before # Absent
    /\ up_file = up_last.file_before

====
